---- MODULE Spec2Model ----
(***************************************************************************)
(* Model of server/agents/multi_hop_agent.py: MultiHopAgent.               *)
(*                                                                         *)
(* A behaviour is one call of a public method of the agent: either         *)
(* process_complex_query(question, max_hops), followed statement by        *)
(* statement through planning, the hop loop, analysis and the two except   *)
(* handlers, or _deduplicate_nodes(nodes) applied to an arbitrary bounded  *)
(* node sequence.  The three DSPy modules (planner, cypher_generator,      *)
(* result_analyzer) are outside the repository: each call either raises or *)
(* returns an output drawn from a small set.                               *)
(***************************************************************************)
EXTENDS Integers, Sequences, FiniteSets, TLC

\* ------------------------------------------------------------------ bounds
\* Longest JSON list the planner returns.
MaxPlanLen == 3
\* Largest max_hops argument a caller passes (max_hops ranges over 1..MaxHops).
MaxHops == 3
\* Longest node sequence handed to _deduplicate_nodes directly.
MaxNodes == 3

\* ------------------------------------------------------------- Python values
\* Python's None, also used for "no exception pending".
None == "None"
\* A key that a JSON object does not have.
Absent == "<absent>"

Min(a, b) == IF a <= b THEN a ELSE b

\* seq[:n] for n >= 0
Slice(seq, n) == SubSeq(seq, 1, Min(n, Len(seq)))

RECURSIVE Flatten(_)
\* The concatenation of a sequence of sequences.
Flatten(ss) == IF ss = <<>> THEN <<>> ELSE Head(ss) \o Flatten(Tail(ss))

\* ------------------------------------------------------------ graph records
GraphNode(id, label, name) == [id |-> id, label |-> label, properties |-> name]

GraphEdge(id, from_id, to_id, label) ==
    [id |-> id, from_id |-> from_id, to_id |-> to_id, label |-> label]

\* _node_to_dict / _edge_to_dict copy every field of the dataclass into a dict.
node_to_dict(node) ==
    [id |-> node.id, label |-> node.label, properties |-> node.properties]

edge_to_dict(edge) ==
    [id |-> edge.id, from_id |-> edge.from_id, to_id |-> edge.to_id,
     label |-> edge.label]

\* json.dumps({"nodes": [...], "edges": [...]}) of the accumulators.
results_json(nodes, edges) ==
    [nodes |-> [k \in 1..Len(nodes) |-> node_to_dict(nodes[k])],
     edges |-> [k \in 1..Len(edges) |-> edge_to_dict(edges[k])]]

\* ------------------------------------------------------------ planner output
\* A plan text is a sequence of tokens: "ws" is a run of whitespace, "fence" a
\* code fence (three backquotes), "json" the word json, "prose" any text that is not JSON, and
\* "JSON" the serialization of the JSON value the planner output carries in
\* its field body.
Fence == "fence"

\* The elements a planner puts in its JSON list: step objects (dict) with their
\* keys, and a number.  Absent marks a key the object does not have.
StepObject(n, d, x) ==
    [kind |-> "dict", step_number |-> n, description |-> d, expected_entities |-> x]

JsonNumber ==
    [kind |-> "number", step_number |-> Absent, description |-> Absent,
     expected_entities |-> Absent]

StepElems ==
    { StepObject(1, "find companies", "Company"),
      StepObject(2, "find executives", Absent),
      JsonNumber }

\* All sequences over S of length 0..n.
SeqsUpTo(S, n) == UNION { [1..k -> S] : k \in 0..n }

JsonList(items) == [kind |-> "list", items |-> items]

JsonValues ==
    { JsonList(p) : p \in SeqsUpTo(StepElems, MaxPlanLen) }
        \cup { [kind |-> "object", items |-> <<>>],
               [kind |-> "number", items |-> <<>>] }

\* The shapes a planner gives its answer: bare, in a json fence, in a plain
\* fence with surrounding whitespace.
Wrappings ==
    { <<"JSON">>,
      <<Fence, "json", "ws", "JSON", "ws", Fence>>,
      <<"ws", Fence, "ws", "JSON", "ws", Fence, "ws">> }

\* plan_result as returned by self.planner: .plan is a text (is_str) or None.
\* The texts are a JSON value in each wrapping, prose, and prose followed by
\* a JSON value.
PlannerOutputs ==
    { [is_str |-> TRUE, plan |-> w, body |-> v] : w \in Wrappings, v \in JsonValues }
        \cup { [is_str |-> TRUE, plan |-> <<"prose">>, body |-> JsonList(<<>>)],
               [is_str |-> TRUE, plan |-> <<"prose", "ws", "JSON">>,
                body |-> JsonList(<<StepObject(1, "find companies", "Company")>>)],
               [is_str |-> FALSE, plan |-> <<>>, body |-> JsonList(<<>>)] }

\* plan_result before self.planner has returned.
NoPlanResult == [is_str |-> FALSE, plan |-> <<"unbound">>, body |-> JsonList(<<>>)]

RECURSIVE lstrip(_)
lstrip(t) == IF t # <<>> /\ Head(t) = "ws" THEN lstrip(Tail(t)) ELSE t

RECURSIVE rstrip(_)
rstrip(t) ==
    IF t # <<>> /\ t[Len(t)] = "ws" THEN rstrip(SubSeq(t, 1, Len(t) - 1)) ELSE t

\* str.strip()
strip(t) == rstrip(lstrip(t))

\* if plan_text.startswith(fence + 'json'): plan_text = plan_text[7:]
remove_json_fence(t) ==
    IF Len(t) >= 2 /\ t[1] = Fence /\ t[2] = "json" THEN SubSeq(t, 3, Len(t)) ELSE t

\* if plan_text.startswith(fence): plan_text = plan_text[3:]
remove_fence(t) ==
    IF Len(t) >= 1 /\ t[1] = Fence THEN Tail(t) ELSE t

\* The closing fence left in the text.
remove_end_fence_kept(t) == t

\* if plan_text.endswith(fence): plan_text = plan_text[:-3]
remove_end_fence(t) ==
    IF Len(t) >= 1 /\ t[Len(t)] = Fence THEN SubSeq(t, 1, Len(t) - 1) ELSE t

\* json.loads accepts exactly one JSON value with optional whitespace around it.
json_valid(t) == strip(t) = <<"JSON">>

\* parse_plan with text that is not JSON taken for an empty plan instead of
\* raising JSONDecodeError.
parse_plan_lenient(pr) ==
    IF ~pr.is_str
    THEN [exc |-> "AttributeError", steps |-> <<>>]
    ELSE LET plan_text ==
                 strip(remove_end_fence(remove_fence(remove_json_fence(strip(pr.plan)))))
         IN IF ~json_valid(plan_text) \/ pr.body.kind # "list"
            THEN [exc |-> None, steps |-> <<>>]
            ELSE [exc |-> None, steps |-> pr.body.items]

\* Lines 130-145: the try block that turns plan_result.plan into steps.
\* exc is the exception type the block raises, None when it completes.
parse_plan(pr) ==
    IF ~pr.is_str
    THEN [exc |-> "AttributeError", steps |-> <<>>]
    ELSE LET plan_text ==
                 strip(remove_end_fence(remove_fence(remove_json_fence(strip(pr.plan)))))
         IN IF ~json_valid(plan_text)
            THEN [exc |-> "JSONDecodeError", steps |-> <<>>]
            ELSE IF pr.body.kind # "list"
                 THEN [exc |-> None, steps |-> <<>>]
                 ELSE [exc |-> None, steps |-> pr.body.items]

\* ------------------------------------------------------------- query results
\* A Cypher query is modelled by the set of lower-case keywords it contains,
\* which is all _execute_cypher_step reads of it; is_str is FALSE for a
\* cypher_query that is not a string (None).
Query(words) == [is_str |-> TRUE, words |-> words]

NoneQuery == [is_str |-> FALSE, words |-> {}]

Queries ==
    { Query({}),
      Query({"company", "financial services"}),
      Query({"person", "ceo"}),
      Query({"rating"}) }

\* What self.cypher_generator returns when it returns.
GeneratorOutputs ==
    { [cypher_query |-> q, reasoning |-> "because"] : q \in Queries \cup {NoneQuery} }

NoCypherResult == [cypher_query |-> NoneQuery, reasoning |-> None]

Company1 == GraphNode("company_1", "Company", "Goldman Sachs Group Inc")

Person1 == GraphNode("person_1", "Person", "David M. Solomon")

Rating1 == GraphNode("rating_1", "Rating", "A+")

Emp1 == GraphEdge("emp_1", "person_1", "company_1", "EMPLOYED_BY")

RatingEdge1 == GraphEdge("rating_edge_1", "company_1", "rating_1", "HAS_RATING")

\* _execute_cypher_step on a string query: the three pattern matches in order.
execute_cypher_step(q) ==
    LET w == q.words
        n1 == IF "company" \in w /\ "financial services" \in w THEN <<Company1>> ELSE <<>>
        n2 == IF "person" \in w /\ "ceo" \in w THEN <<Person1>> ELSE <<>>
        e2 == IF "person" \in w /\ "ceo" \in w THEN <<Emp1>> ELSE <<>>
        n3 == IF "rating" \in w THEN <<Rating1>> ELSE <<>>
        e3 == IF "rating" \in w THEN <<RatingEdge1>> ELSE <<>>
    IN [nodes |-> n1 \o n2 \o n3, edges |-> e2 \o e3]

\* ------------------------------------------------------------ deduplication
RECURSIVE dedup_keep_last(_, _, _)
\* The loop with a later node of a seen id replacing the one kept.
dedup_keep_last(rest, seen_ids, unique) ==
    IF rest = <<>> THEN unique
    ELSE LET node == Head(rest)
         IN IF node.id \notin seen_ids
            THEN dedup_keep_last(Tail(rest), seen_ids \cup {node.id},
                                 Append(unique, node))
            ELSE dedup_keep_last(Tail(rest), seen_ids,
                                 [k \in 1..Len(unique) |->
                                     IF unique[k].id = node.id THEN node
                                     ELSE unique[k]])

RECURSIVE dedup_forgetful(_, _, _)
\* The loop with a duplicate making the id unseen again.
dedup_forgetful(rest, seen_ids, unique) ==
    IF rest = <<>> THEN unique
    ELSE LET node == Head(rest)
         IN IF node.id \notin seen_ids
            THEN dedup_forgetful(Tail(rest), seen_ids \cup {node.id},
                                 Append(unique, node))
            ELSE dedup_forgetful(Tail(rest), seen_ids \ {node.id}, unique)

RECURSIVE dedup_loop(_, _, _)
\* The for loop of _deduplicate_nodes over the rest of the input.
dedup_loop(rest, seen_ids, unique) ==
    IF rest = <<>> THEN unique
    ELSE LET node == Head(rest)
         IN IF node.id \notin seen_ids
            THEN dedup_loop(Tail(rest), seen_ids \cup {node.id}, Append(unique, node))
            ELSE dedup_loop(Tail(rest), seen_ids, unique)

_deduplicate_nodes(node_seq) == dedup_loop(node_seq, {}, <<>>)

\* The nodes _deduplicate_nodes is applied to directly: the three the backend
\* returns and two that share an id with one of them but differ from it.
NodeUniverse ==
    { Company1, Person1,
      GraphNode("company_1", "Company", "Goldman Sachs (renamed)"),
      GraphNode("person_1", "Company", "mislabelled person") }

\* ------------------------------------------------------------------ state
VARIABLES
    pc,               \* the statement the call is at
    max_hops,         \* argument of process_complex_query
    plan_result,      \* what self.planner returned
    steps,            \* the parsed plan
    i,                \* enumerate index of the current hop, -1 before the first
    step,             \* loop variable of the hop loop
    all_nodes,        \* accumulated nodes
    all_edges,        \* accumulated edges
    hop_results,      \* one dict per attempted hop
    cypher_queries,   \* the queries generated
    cypher_result,    \* what self.cypher_generator returned for the current hop
    analysis,         \* what self.result_analyzer returned
    e,                \* the exception being propagated or handled
    result,           \* the MultiHopResult returned
    planner_calls,    \* number of calls of self.planner
    generator_calls,  \* step number and inputs of every call of self.cypher_generator
    execute_calls,    \* step number and query of every call of _execute_cypher_step
    analyzer_calls,   \* the inputs of every call of self.result_analyzer
    attempted,        \* the plan items for which the loop body was entered
    start_time,       \* datetime.now() taken when the call started, in ticks
    now,              \* the clock, in ticks
    suspended,        \* the locals of a second call that is not running now
    nodes,            \* argument of a direct call of _deduplicate_nodes
    unique_nodes,     \* what that call returned
    unique_again      \* what _deduplicate_nodes returned for unique_nodes

vars ==
    << pc, max_hops, plan_result, steps, i, step, all_nodes, all_edges,
       hop_results, cypher_queries, cypher_result, analysis, e, result,
       planner_calls, generator_calls, execute_calls, analyzer_calls, attempted,
       start_time, now, suspended, nodes, unique_nodes, unique_again >>

run_vars ==
    << max_hops, plan_result, steps, i, step, all_nodes, all_edges,
       hop_results, cypher_queries, cypher_result, analysis, e, result,
       planner_calls, generator_calls, execute_calls, analyzer_calls, attempted,
       start_time >>

question == "Find companies and their executives"

NoExc == [type |-> None, msg |-> None]

Raised(type, msg) == [type |-> type, msg |-> msg]

NoAnalysis == [answer |-> None, completeness |-> None, missing_info |-> None]

\* What self.result_analyzer returns when it returns: three output fields of
\* free text written by the language model.
AnalyzerOutputs ==
    { [answer |-> "answer", completeness |-> "complete", missing_info |-> ""],
      [answer |-> "no answer", completeness |-> "incomplete",
       missing_info |-> "no evidence"],
      [answer |-> "some answer", completeness |-> "mostly complete, ratings missing",
       missing_info |-> "ratings"] }

\* The dataclass MultiHopResult; error defaults to None.
MultiHopResult(q, reasoning, hops, fnodes, fedges, time, queries, error) ==
    [query |-> q, reasoning |-> reasoning, hops |-> hops,
     final_nodes |-> fnodes, final_edges |-> fedges,
     execution_time |-> time, cypher_queries |-> queries,
     error |-> error]

\* There is no second call.
NoFrame == [pc |-> "none"]

\* The ticks a call of the planner takes: like every port call, one.
PlannerTicks == {1}

\* No result yet: the call has not returned.
NoResult == [returned |-> FALSE]

\* dict.get(key, default) on a step object.
Get(value, default) == IF value = Absent THEN default ELSE value

InitRun ==
    /\ pc = "planner"
    /\ max_hops \in 1..MaxHops
    /\ plan_result = NoPlanResult
    /\ steps = <<>>
    /\ i = -1
    /\ step = JsonNumber
    /\ all_nodes = <<>>
    /\ all_edges = <<>>
    /\ hop_results = <<>>
    /\ cypher_queries = <<>>
    /\ cypher_result = NoCypherResult
    /\ analysis = NoAnalysis
    /\ e = NoExc
    /\ result = NoResult
    /\ planner_calls = 0
    /\ generator_calls = <<>>
    /\ execute_calls = <<>>
    /\ analyzer_calls = <<>>
    /\ attempted = <<>>
    /\ now = 0
    /\ start_time = now
    /\ suspended = NoFrame
    /\ nodes = <<>>
    /\ unique_nodes = <<>>
    /\ unique_again = <<>>

InitDedup ==
    /\ pc = "dedup"
    /\ nodes \in SeqsUpTo(NodeUniverse, MaxNodes)
    /\ unique_nodes = <<>>
    /\ unique_again = <<>>
    /\ max_hops = 1
    /\ plan_result = NoPlanResult
    /\ steps = <<>>
    /\ i = -1
    /\ step = JsonNumber
    /\ all_nodes = <<>>
    /\ all_edges = <<>>
    /\ hop_results = <<>>
    /\ cypher_queries = <<>>
    /\ cypher_result = NoCypherResult
    /\ analysis = NoAnalysis
    /\ e = NoExc
    /\ result = NoResult
    /\ planner_calls = 0
    /\ generator_calls = <<>>
    /\ execute_calls = <<>>
    /\ analyzer_calls = <<>>
    /\ attempted = <<>>
    /\ now = 0
    /\ start_time = now
    /\ suspended = NoFrame

Init == InitRun \/ InitDedup

\* ---------------------------------------------------------------- actions
\* Line 127: plan_result = self.planner(question=question, context=context).
\* An exception of the planner reaches the outer handler.  The call takes
\* some ticks of the clock.
CallPlanner ==
    /\ pc = "planner"
    /\ planner_calls' = planner_calls + 1
    /\ \E d \in PlannerTicks : now' = now + d
    /\ \/ /\ e' = Raised("Exception", "planner failed")
          /\ pc' = "except"
          /\ UNCHANGED plan_result
       \/ /\ \E out \in PlannerOutputs : plan_result' = out
          /\ pc' = "parse"
          /\ UNCHANGED e
    /\ UNCHANGED << max_hops, steps, i, step, all_nodes, all_edges, hop_results,
                    cypher_queries, cypher_result, analysis, result,
                    generator_calls, execute_calls, analyzer_calls, attempted,
                    nodes, unique_nodes, unique_again, suspended, start_time >>

\* Lines 146-158: except (json.JSONDecodeError, AttributeError): return the
\* plan-parse failure result.
plan_parse_failure(exc) ==
    MultiHopResult(question, "Failed to parse multi-hop plan", <<>>, <<>>, <<>>,
                   0, <<>>, "Plan parsing failed: " \o exc)

\* Lines 130-166: parse the plan; on success bind the four accumulators.
ParsePlan ==
    /\ pc = "parse"
    /\ LET p == parse_plan(plan_result)
       IN IF p.exc \in {"JSONDecodeError", "AttributeError"}
          THEN /\ result' = plan_parse_failure(p.exc)
               /\ pc' = "done"
               /\ UNCHANGED steps
          ELSE /\ steps' = p.steps
               /\ pc' = "for"
               /\ UNCHANGED result
    /\ all_nodes' = <<>>
    /\ all_edges' = <<>>
    /\ hop_results' = <<>>
    /\ cypher_queries' = <<>>
    /\ UNCHANGED << max_hops, plan_result, i, step, cypher_result, analysis, e,
                    planner_calls, generator_calls, execute_calls,
                    analyzer_calls, attempted, nodes, unique_nodes,
                    unique_again, suspended, start_time, now >>

\* The loop iterating over the whole plan, max_hops ignored.
hop_steps_unbounded == steps

\* steps[:max_hops], the sequence the hop loop iterates over.
hop_steps == Slice(steps, max_hops)

\* The loop asking for a new plan once when a hop has failed, instead of
\* going on to the analysis.
ForNext_replan ==
    /\ pc = "for"
    /\ IF i + 1 < Len(hop_steps)
       THEN /\ i' = i + 1
            /\ step' = hop_steps[i + 2]
            /\ attempted' = Append(attempted, hop_steps[i + 2])
            /\ pc' = "generate"
       ELSE /\ pc' = IF planner_calls < 2
                        /\ \E k \in 1..Len(hop_results) : "error" \in DOMAIN hop_results[k]
                     THEN "planner" ELSE "analyze"
            /\ UNCHANGED << i, step, attempted >>
    /\ UNCHANGED << max_hops, plan_result, steps, all_nodes, all_edges,
                    hop_results, cypher_queries, cypher_result, analysis, e,
                    result, planner_calls, generator_calls, execute_calls,
                    analyzer_calls, nodes, unique_nodes, unique_again,
                    suspended, start_time, now >>

\* Line 168: for i, step in enumerate(steps[:max_hops]): take the next item, or
\* leave the loop when there is none.
ForNext ==
    /\ pc = "for"
    /\ IF i + 1 < Len(hop_steps)
       THEN /\ i' = i + 1
            /\ step' = hop_steps[i + 2]
            /\ attempted' = Append(attempted, hop_steps[i + 2])
            /\ pc' = "generate"
       ELSE /\ pc' = "analyze"
            /\ UNCHANGED << i, step, attempted >>
    /\ UNCHANGED << max_hops, plan_result, steps, all_nodes, all_edges,
                    hop_results, cypher_queries, cypher_result, analysis, e,
                    result, planner_calls, generator_calls, execute_calls,
                    analyzer_calls, nodes, unique_nodes, unique_again,
                    suspended, start_time, now >>

\* The generator called without the accumulated results: previous_results is
\* always the serialization of two empty lists.
generator_inputs_no_context ==
    [step_description |-> Get(step.description, ""),
     previous_results |-> results_json(<<>>, <<>>),
     target_entities |-> Get(step.expected_entities, "Any")]

\* The keyword arguments of the call of self.cypher_generator, lines 173-182.
generator_inputs ==
    [step_description |-> Get(step.description, ""),
     previous_results |-> results_json(all_nodes, all_edges),
     target_entities |-> Get(step.expected_entities, "Any")]

\* The loop body starting the query generation of the next step together
\* with the one of the current step, before the current step has executed.
GenerateCypher_prefetch ==
    /\ pc = "generate"
    /\ IF step.kind # "dict"
       THEN /\ e' = Raised("AttributeError", "object has no attribute 'get'")
            /\ pc' = "hop_except"
            /\ UNCHANGED << cypher_result, generator_calls, now >>
       ELSE /\ generator_calls' =
                   IF i + 2 <= Len(hop_steps)
                   THEN generator_calls
                            \o << [hop |-> i + 1, inputs |-> generator_inputs],
                                  [hop |-> i + 2, inputs |-> generator_inputs] >>
                   ELSE Append(generator_calls, [hop |-> i + 1, inputs |-> generator_inputs])
            /\ now' = now + 1
            /\ \/ /\ e' = Raised("Exception", "generator failed")
                  /\ pc' = "hop_except"
                  /\ UNCHANGED cypher_result
               \/ /\ \E out \in GeneratorOutputs : cypher_result' = out
                  /\ pc' = "execute"
                  /\ UNCHANGED e
    /\ UNCHANGED << max_hops, plan_result, steps, i, step, all_nodes, all_edges,
                    hop_results, cypher_queries, analysis, result,
                    planner_calls, execute_calls, analyzer_calls, attempted,
                    nodes, unique_nodes, unique_again, suspended, start_time >>

\* Lines 170-182: step.get raises AttributeError on a plan item that is not a
\* dict; otherwise the generator is called and returns or raises, a tick later.
GenerateCypher ==
    /\ pc = "generate"
    /\ IF step.kind # "dict"
       THEN /\ e' = Raised("AttributeError", "object has no attribute 'get'")
            /\ pc' = "hop_except"
            /\ UNCHANGED << cypher_result, generator_calls, now >>
       ELSE /\ generator_calls' =
                   Append(generator_calls, [hop |-> i + 1, inputs |-> generator_inputs])
            /\ now' = now + 1
            /\ \/ /\ e' = Raised("Exception", "generator failed")
                  /\ pc' = "hop_except"
                  /\ UNCHANGED cypher_result
               \/ /\ \E out \in GeneratorOutputs : cypher_result' = out
                  /\ pc' = "execute"
                  /\ UNCHANGED e
    /\ UNCHANGED << max_hops, plan_result, steps, i, step, all_nodes, all_edges,
                    hop_results, cypher_queries, analysis, result,
                    planner_calls, execute_calls, analyzer_calls, attempted,
                    nodes, unique_nodes, unique_again, suspended, start_time >>

\* The hop dict counting what is accumulated so far instead of what the hop
\* found.
hop_success_running_totals(hop_nodes, hop_edges) ==
    [step_number |-> i + 1,
     description |-> Get(step.description, ""),
     cypher_query |-> cypher_result.cypher_query,
     reasoning |-> cypher_result.reasoning,
     nodes_found |-> Len(all_nodes) + Len(hop_nodes),
     edges_found |-> Len(all_edges) + Len(hop_edges)]

\* Lines 195-202: the dict recorded for a hop that succeeded.
hop_success(hop_nodes, hop_edges) ==
    [step_number |-> i + 1,
     description |-> Get(step.description, ""),
     cypher_query |-> cypher_result.cypher_query,
     reasoning |-> cypher_result.reasoning,
     nodes_found |-> Len(hop_nodes),
     edges_found |-> Len(hop_edges)]

\* The loop body recording the query only once its execution has succeeded.
ExecuteStep_query_after_success ==
    /\ pc = "execute"
    /\ LET cypher_query == cypher_result.cypher_query
       IN /\ execute_calls' =
                 Append(execute_calls, [hop |-> i + 1, cypher_query |-> cypher_query])
          /\ IF ~cypher_query.is_str
             THEN /\ e' = Raised("AttributeError", "object has no attribute 'lower'")
                  /\ pc' = "hop_except"
                  /\ UNCHANGED << all_nodes, all_edges, hop_results, cypher_queries >>
             ELSE LET hop == execute_cypher_step(cypher_query)
                  IN /\ cypher_queries' = Append(cypher_queries, cypher_query)
                     /\ all_nodes' = all_nodes \o hop.nodes
                     /\ all_edges' = all_edges \o hop.edges
                     /\ hop_results' =
                            Append(hop_results, hop_success(hop.nodes, hop.edges))
                     /\ pc' = "for"
                     /\ UNCHANGED e
    /\ UNCHANGED << max_hops, plan_result, steps, i, step, cypher_result,
                    analysis, result, planner_calls, generator_calls,
                    analyzer_calls, attempted, nodes, unique_nodes,
                    unique_again, suspended, start_time, now >>

\* The loop body keeping only what the last hop returned: the accumulators are
\* overwritten with the hop's nodes and edges.
ExecuteStep_overwrite ==
    /\ pc = "execute"
    /\ LET cypher_query == cypher_result.cypher_query
       IN /\ cypher_queries' = Append(cypher_queries, cypher_query)
          /\ execute_calls' =
                 Append(execute_calls, [hop |-> i + 1, cypher_query |-> cypher_query])
          /\ IF ~cypher_query.is_str
             THEN /\ e' = Raised("AttributeError", "object has no attribute 'lower'")
                  /\ pc' = "hop_except"
                  /\ UNCHANGED << all_nodes, all_edges, hop_results >>
             ELSE LET hop == execute_cypher_step(cypher_query)
                  IN /\ all_nodes' = hop.nodes
                     /\ all_edges' = hop.edges
                     /\ hop_results' =
                            Append(hop_results, hop_success(hop.nodes, hop.edges))
                     /\ pc' = "for"
                     /\ UNCHANGED e
    /\ UNCHANGED << max_hops, plan_result, steps, i, step, cypher_result,
                    analysis, result, planner_calls, generator_calls,
                    analyzer_calls, attempted, nodes, unique_nodes,
                    unique_again, suspended, start_time, now >>

\* Lines 184-204: record the query, execute it, accumulate, record the hop.
\* query_lower = cypher_query.lower() raises AttributeError on a query that
\* is not a string, after the query was appended to cypher_queries.
ExecuteStep ==
    /\ pc = "execute"
    /\ LET cypher_query == cypher_result.cypher_query
       IN /\ cypher_queries' = Append(cypher_queries, cypher_query)
          /\ execute_calls' =
                 Append(execute_calls, [hop |-> i + 1, cypher_query |-> cypher_query])
          /\ IF ~cypher_query.is_str
             THEN /\ e' = Raised("AttributeError", "object has no attribute 'lower'")
                  /\ pc' = "hop_except"
                  /\ UNCHANGED << all_nodes, all_edges, hop_results >>
             ELSE LET hop == execute_cypher_step(cypher_query)
                  IN /\ all_nodes' = all_nodes \o hop.nodes
                     /\ all_edges' = all_edges \o hop.edges
                     /\ hop_results' =
                            Append(hop_results, hop_success(hop.nodes, hop.edges))
                     /\ pc' = "for"
                     /\ UNCHANGED e
    /\ UNCHANGED << max_hops, plan_result, steps, i, step, cypher_result,
                    analysis, result, planner_calls, generator_calls,
                    analyzer_calls, attempted, nodes, unique_nodes,
                    unique_again, suspended, start_time, now >>

\* Lines 208-212: the dict recorded for a hop that raised.
hop_failure ==
    [step_number |-> i + 1,
     description |-> Get(step.description, ""),
     error |-> e.msg]

\* The per-hop handler starting over after a failure: the accumulators are
\* emptied when the error is recorded.
HopExcept_reset ==
    /\ pc = "hop_except"
    /\ IF step.kind = "dict"
       THEN /\ hop_results' = Append(hop_results, hop_failure)
            /\ e' = NoExc
            /\ pc' = "for"
            /\ all_nodes' = <<>>
            /\ all_edges' = <<>>
       ELSE /\ e' = Raised("AttributeError", "object has no attribute 'get'")
            /\ pc' = "except"
            /\ UNCHANGED << hop_results, all_nodes, all_edges >>
    /\ UNCHANGED << max_hops, plan_result, steps, i, step,
                    cypher_queries, cypher_result, analysis, result,
                    planner_calls, generator_calls, execute_calls,
                    analyzer_calls, attempted, nodes, unique_nodes,
                    unique_again, suspended, start_time, now >>

\* The per-hop handler letting a failure of the query generator end the run:
\* the exception is raised again and reaches the outer handler.
HopExcept_abort ==
    /\ pc = "hop_except"
    /\ IF step.kind = "dict" /\ e.msg # "generator failed"
       THEN /\ hop_results' = Append(hop_results, hop_failure)
            /\ e' = NoExc
            /\ pc' = "for"
       ELSE /\ e' = IF step.kind = "dict" THEN e
                    ELSE Raised("AttributeError", "object has no attribute 'get'")
            /\ pc' = "except"
            /\ UNCHANGED hop_results
    /\ UNCHANGED << max_hops, plan_result, steps, i, step, all_nodes, all_edges,
                    cypher_queries, cypher_result, analysis, result,
                    planner_calls, generator_calls, execute_calls,
                    analyzer_calls, attempted, nodes, unique_nodes,
                    unique_again, suspended, start_time, now >>

\* The per-hop handler trying a failed step a second time before recording
\* the failure.
HopExcept_retry ==
    /\ pc = "hop_except"
    /\ IF step.kind = "dict"
       THEN IF Len(SelectSeq(generator_calls, LAMBDA c : c.hop = i + 1)) < 2
            THEN /\ e' = NoExc
                 /\ pc' = "generate"
                 /\ UNCHANGED hop_results
            ELSE /\ hop_results' = Append(hop_results, hop_failure)
                 /\ e' = NoExc
                 /\ pc' = "for"
       ELSE /\ e' = Raised("AttributeError", "object has no attribute 'get'")
            /\ pc' = "except"
            /\ UNCHANGED hop_results
    /\ UNCHANGED << max_hops, plan_result, steps, i, step, all_nodes, all_edges,
                    cypher_queries, cypher_result, analysis, result,
                    planner_calls, generator_calls, execute_calls,
                    analyzer_calls, attempted, nodes, unique_nodes,
                    unique_again, suspended, start_time, now >>

\* Lines 206-212: except Exception in the loop body.  The handler itself calls
\* step.get, which raises again on a plan item that is not a dict; that
\* exception leaves the loop and reaches the outer handler.
HopExcept ==
    /\ pc = "hop_except"
    /\ IF step.kind = "dict"
       THEN /\ hop_results' = Append(hop_results, hop_failure)
            /\ e' = NoExc
            /\ pc' = "for"
       ELSE /\ e' = Raised("AttributeError", "object has no attribute 'get'")
            /\ pc' = "except"
            /\ UNCHANGED hop_results
    /\ UNCHANGED << max_hops, plan_result, steps, i, step, all_nodes, all_edges,
                    cypher_queries, cypher_result, analysis, result,
                    planner_calls, generator_calls, execute_calls,
                    analyzer_calls, attempted, nodes, unique_nodes,
                    unique_again, suspended, start_time, now >>

\* The analysis step tidying the accumulators in place: all_nodes is
\* deduplicated before the analyzer is called.
Analyze_dedup_in_place ==
    /\ pc = "analyze"
    /\ all_nodes' = _deduplicate_nodes(all_nodes)
    /\ analyzer_calls' =
           Append(analyzer_calls,
                  [original_question |-> question,
                   all_results |-> results_json(all_nodes', all_edges)])
    /\ now' = now + 1
    /\ \/ /\ e' = Raised("Exception", "analyzer failed")
          /\ pc' = "except"
          /\ UNCHANGED analysis
       \/ /\ \E out \in AnalyzerOutputs : analysis' = out
          /\ pc' = "return"
          /\ UNCHANGED e
    /\ UNCHANGED << max_hops, plan_result, steps, i, step, all_edges,
                    hop_results, cypher_queries, cypher_result, result,
                    planner_calls, generator_calls, execute_calls, attempted,
                    nodes, unique_nodes, unique_again, suspended, start_time >>

\* Lines 215-223: serialize the accumulators and call self.result_analyzer,
\* which returns or raises, a tick later.
Analyze ==
    /\ pc = "analyze"
    /\ analyzer_calls' =
           Append(analyzer_calls,
                  [original_question |-> question,
                   all_results |-> results_json(all_nodes, all_edges)])
    /\ now' = now + 1
    /\ \/ /\ e' = Raised("Exception", "analyzer failed")
          /\ pc' = "except"
          /\ UNCHANGED analysis
       \/ /\ \E out \in AnalyzerOutputs : analysis' = out
          /\ pc' = "return"
          /\ UNCHANGED e
    /\ UNCHANGED << max_hops, plan_result, steps, i, step, all_nodes, all_edges,
                    hop_results, cypher_queries, cypher_result, result,
                    planner_calls, generator_calls, execute_calls, attempted,
                    nodes, unique_nodes, unique_again, suspended, start_time >>

RECURSIVE dedup_edges(_, _)
\* Edges deduplicated by id the way nodes are.
dedup_edges(rest, seen_ids) ==
    IF rest = <<>> THEN <<>>
    ELSE IF Head(rest).id \in seen_ids
         THEN dedup_edges(Tail(rest), seen_ids)
         ELSE <<Head(rest)>> \o dedup_edges(Tail(rest), seen_ids \cup {Head(rest).id})

\* The normal result with final_edges deduplicated as well.
normal_result_dedup_edges ==
    MultiHopResult(question, "Multi-hop plan and final analysis", hop_results,
                   _deduplicate_nodes(all_nodes), dedup_edges(all_edges, {}),
                   now - start_time, cypher_queries, None)

\* The normal result listing only the queries that found something.
normal_result_productive_queries ==
    MultiHopResult(question, "Multi-hop plan and final analysis", hop_results,
                   _deduplicate_nodes(all_nodes), all_edges, now - start_time,
                   SelectSeq(cypher_queries,
                             LAMBDA q : q.is_str /\ execute_cypher_step(q).nodes # <<>>),
                   None)

\* Lines 230-238: the result of a run that went through analysis.
normal_result ==
    MultiHopResult(question, "Multi-hop plan and final analysis", hop_results,
                   _deduplicate_nodes(all_nodes), all_edges, now - start_time,
                   cypher_queries, None)

\* Lines 225-238: return the MultiHopResult of the completed run.
ReturnResult ==
    /\ pc = "return"
    /\ result' = normal_result
    /\ pc' = "done"
    /\ UNCHANGED << max_hops, plan_result, steps, i, step, all_nodes, all_edges,
                    hop_results, cypher_queries, cypher_result, analysis, e,
                    planner_calls, generator_calls, execute_calls,
                    analyzer_calls, attempted, nodes, unique_nodes,
                    unique_again, suspended, start_time, now >>

\* The outer handler returning what had been accumulated.
error_result_partial ==
    MultiHopResult(question, "Error during multi-hop processing", hop_results,
                   _deduplicate_nodes(all_nodes), all_edges, now - start_time,
                   cypher_queries, e.msg)

\* Lines 244-253: the result the outer handler builds.
error_result ==
    MultiHopResult(question, "Error during multi-hop processing", <<>>, <<>>,
                   <<>>, now - start_time, <<>>, e.msg)

\* The outer handler catching AttributeError only: any other exception leaves
\* process_complex_query.
TopExcept_narrow ==
    /\ pc = "except"
    /\ IF e.type = "AttributeError"
       THEN /\ result' = error_result
            /\ pc' = "done"
       ELSE /\ pc' = "propagated"
            /\ UNCHANGED result
    /\ UNCHANGED << max_hops, plan_result, steps, i, step, all_nodes, all_edges,
                    hop_results, cypher_queries, cypher_result, analysis, e,
                    planner_calls, generator_calls, execute_calls,
                    analyzer_calls, attempted, nodes, unique_nodes,
                    unique_again, suspended, start_time, now >>

\* Lines 240-253: except Exception around the whole body.
TopExcept ==
    /\ pc = "except"
    /\ result' = error_result
    /\ pc' = "done"
    /\ UNCHANGED << max_hops, plan_result, steps, i, step, all_nodes, all_edges,
                    hop_results, cypher_queries, cypher_result, analysis, e,
                    planner_calls, generator_calls, execute_calls,
                    analyzer_calls, attempted, nodes, unique_nodes,
                    unique_again, suspended, start_time, now >>

\* Lines 343-353: a direct call _deduplicate_nodes(nodes).
CallDeduplicateNodes ==
    /\ pc = "dedup"
    /\ unique_nodes' = _deduplicate_nodes(nodes)
    /\ pc' = "dedup_once"
    /\ UNCHANGED << run_vars, now, suspended, nodes, unique_again >>

\* Lines 343-353: _deduplicate_nodes applied to its own output.
CallDeduplicateAgain ==
    /\ pc = "dedup_once"
    /\ unique_again' = _deduplicate_nodes(unique_nodes)
    /\ pc' = "dedup_twice"
    /\ UNCHANGED << run_vars, now, suspended, nodes, unique_nodes >>

\* One statement of process_complex_query.
RunNext ==
    \/ CallPlanner
    \/ ParsePlan
    \/ ForNext
    \/ GenerateCypher
    \/ ExecuteStep
    \/ HopExcept
    \/ Analyze
    \/ ReturnResult
    \/ TopExcept

Next ==
    \/ RunNext
    \/ CallDeduplicateNodes
    \/ CallDeduplicateAgain

Spec == Init /\ [][Next]_vars

\* The planner's text in the runs checked for termination: a bare JSON value,
\* prose, or no text at all.  The fenced forms parse to the same steps.
PlainPlanText == plan_result.plan \in { <<"unbound">>, <<"JSON">>, <<"prose">>, <<>> }

\* A call of process_complex_query whose statements are eventually executed:
\* the function is synchronous code, and every port invocation returns or
\* raises (CallPlanner, GenerateCypher and Analyze have both outcomes).
NextRun == RunNext /\ PlainPlanText'

SpecRunFair == InitRun /\ [][NextRun]_vars /\ WF_vars(NextRun)

\* ------------------------------------------------- two interleaved calls
\* Two threads call process_complex_query on one agent.  Everything the
\* function binds is a local of its own frame (lines 114-166); the agent's
\* attributes are only read.  The variables hold the frame of the call that
\* runs; suspended holds the frame of the other one.
ActiveFrame ==
    [pc |-> pc, max_hops |-> max_hops, plan_result |-> plan_result,
     steps |-> steps, i |-> i, step |-> step, all_nodes |-> all_nodes,
     all_edges |-> all_edges, hop_results |-> hop_results,
     cypher_queries |-> cypher_queries, cypher_result |-> cypher_result,
     analysis |-> analysis, e |-> e, result |-> result,
     planner_calls |-> planner_calls, generator_calls |-> generator_calls,
     execute_calls |-> execute_calls, analyzer_calls |-> analyzer_calls,
     attempted |-> attempted, start_time |-> start_time]

\* The frame of a call process_complex_query(question, max_hops = m) that
\* has not made its first call.
NewFrame(m) ==
    [pc |-> "planner", max_hops |-> m, plan_result |-> NoPlanResult,
     steps |-> <<>>, i |-> -1, step |-> JsonNumber, all_nodes |-> <<>>,
     all_edges |-> <<>>, hop_results |-> <<>>, cypher_queries |-> <<>>,
     cypher_result |-> NoCypherResult, analysis |-> NoAnalysis, e |-> NoExc,
     result |-> NoResult, planner_calls |-> 0, generator_calls |-> <<>>,
     execute_calls |-> <<>>, analyzer_calls |-> <<>>, attempted |-> <<>>,
     start_time |-> 0]

\* A thread resumed with the accumulators of the thread that ran before it:
\* all_nodes, all_edges, hop_results and cypher_queries kept on the agent
\* instead of in the frame.
Restore_shared_accumulators(f) ==
    /\ pc' = f.pc
    /\ max_hops' = f.max_hops
    /\ plan_result' = f.plan_result
    /\ steps' = f.steps
    /\ i' = f.i
    /\ step' = f.step
    /\ UNCHANGED << all_nodes, all_edges, hop_results, cypher_queries >>
    /\ cypher_result' = f.cypher_result
    /\ analysis' = f.analysis
    /\ e' = f.e
    /\ result' = f.result
    /\ planner_calls' = f.planner_calls
    /\ generator_calls' = f.generator_calls
    /\ execute_calls' = f.execute_calls
    /\ analyzer_calls' = f.analyzer_calls
    /\ attempted' = f.attempted
    /\ start_time' = f.start_time

\* A thread is resumed: its frame f becomes the running one, with every
\* local as the thread left it.
Restore(f) ==
    /\ pc' = f.pc
    /\ max_hops' = f.max_hops
    /\ plan_result' = f.plan_result
    /\ steps' = f.steps
    /\ i' = f.i
    /\ step' = f.step
    /\ all_nodes' = f.all_nodes
    /\ all_edges' = f.all_edges
    /\ hop_results' = f.hop_results
    /\ cypher_queries' = f.cypher_queries
    /\ cypher_result' = f.cypher_result
    /\ analysis' = f.analysis
    /\ e' = f.e
    /\ result' = f.result
    /\ planner_calls' = f.planner_calls
    /\ generator_calls' = f.generator_calls
    /\ execute_calls' = f.execute_calls
    /\ analyzer_calls' = f.analyzer_calls
    /\ attempted' = f.attempted
    /\ start_time' = f.start_time

\* The scheduler switches threads between two statements: the running call
\* is suspended and the other one, if it has not returned, is resumed.
Switch ==
    /\ suspended.pc \notin {"none", "done"}
    /\ suspended' = ActiveFrame
    /\ Restore(suspended)
    /\ UNCHANGED << now, nodes, unique_nodes, unique_again >>

\* The port responses of the two interleaved calls: the planner raises or
\* returns a plan of two steps, a plan of one step or prose; the generator
\* raises or returns the company query, the executives query or None; the
\* analyzer raises or returns a complete answer.
TwoCallPlans ==
    { [is_str |-> TRUE, plan |-> <<"JSON">>,
       body |-> JsonList(<< StepObject(1, "find companies", "Company"),
                            StepObject(2, "find executives", Absent) >>)],
      [is_str |-> TRUE, plan |-> <<"JSON">>,
       body |-> JsonList(<< StepObject(2, "find executives", Absent) >>)],
      [is_str |-> TRUE, plan |-> <<"prose">>, body |-> JsonList(<<>>)] }

TwoCallQueries ==
    { Query({"company", "financial services"}), Query({"person", "ceo"}), NoneQuery }

TwoCallResponses ==
    /\ plan_result \in TwoCallPlans \cup {NoPlanResult}
    /\ cypher_result.cypher_query \in TwoCallQueries
    /\ analysis.completeness \in {None, "complete"}

\* The values of max_hops the two callers pass.
TwoCallHops == {1, 2}

\* Both threads have entered process_complex_query at tick 0; one runs.
InitTwoCalls ==
    /\ pc = "planner"
    /\ max_hops \in TwoCallHops
    /\ plan_result = NoPlanResult
    /\ steps = <<>>
    /\ i = -1
    /\ step = JsonNumber
    /\ all_nodes = <<>>
    /\ all_edges = <<>>
    /\ hop_results = <<>>
    /\ cypher_queries = <<>>
    /\ cypher_result = NoCypherResult
    /\ analysis = NoAnalysis
    /\ e = NoExc
    /\ result = NoResult
    /\ planner_calls = 0
    /\ generator_calls = <<>>
    /\ execute_calls = <<>>
    /\ analyzer_calls = <<>>
    /\ attempted = <<>>
    /\ now = 0
    /\ start_time = now
    /\ suspended \in { NewFrame(m) : m \in TwoCallHops }
    /\ nodes = <<>>
    /\ unique_nodes = <<>>
    /\ unique_again = <<>>

\* The running call executes a statement, or the threads are switched.
NextTwoCalls ==
    \/ RunNext /\ TwoCallResponses'
    \/ Switch

SpecTwoCalls == InitTwoCalls /\ [][NextTwoCalls]_vars

\* ------------------------------------------------------------- vocabulary
\* The call is process_complex_query and the planner has returned.
PlannerReturned == plan_result # NoPlanResult

\* The plan was parsed (lines 130-145 completed): the run entered the hop loop.
PlanParsed == PlannerReturned /\ pc \notin {"planner", "parse"}
                  /\ parse_plan(plan_result).exc = None

\* The planner output is a text holding one JSON value, bare or in a fence.
IsJsonText == plan_result.is_str /\ plan_result.plan \in Wrappings

\* The planner output is a JSON list, and what it lists.
PlanIsList == PlanParsed /\ plan_result.body.kind = "list"

PlanItems == plan_result.body.items

AllStepObjects == \A k \in 1..Len(PlanItems) : PlanItems[k].kind = "dict"

NoStepObjects == \A k \in 1..Len(PlanItems) : PlanItems[k].kind # "dict"

\* min(n, m) for the plan's length n and max_hops = m.
HopBudget == Min(Len(PlanItems), max_hops)

Returned == pc = "done"

\* The run returned from lines 230-238, through analysis.
Completed == Returned /\ result.error = None

IsErrorHop(h) == "error" \in DOMAIN h

ErrorHops(hops) == { k \in 1..Len(hops) : IsErrorHop(hops[k]) }

\* A count a Hop Outcome carries; an outcome without the key found nothing.
HopCount(h, key) == IF key \in DOMAIN h THEN h[key] ELSE 0

AnalyzerRaised == e.msg = "analyzer failed"

ResultFields ==
    { "query", "reasoning", "hops", "final_nodes", "final_edges",
      "execution_time", "cypher_queries", "error" }

\* ------------------------------------------------------------------ claims
\* C1 (as stated): for a plan of n step objects and max_hops = m, exactly the
\* first min(n, m) items are attempted, each once and in plan order, and the
\* returned hops list has min(n, m) entries.
C1_HopsListHasMinEntries ==
    (Returned /\ PlanIsList /\ AllStepObjects)
        => /\ attempted = Slice(PlanItems, HopBudget)
           /\ Len(result.hops) = HopBudget

\* C1 (amended): for a plan of n step objects and max_hops = m, the items
\* attempted so far are always a prefix of the first min(n, m) items in plan
\* order, after the loop they are exactly the first min(n, m) items, and the
\* returned hops list has min(n, m) entries when the analyzer returned and
\* none when the analyzer raised.
C1_ExactlyMinSteps ==
    (PlanIsList /\ AllStepObjects)
        => /\ Len(attempted) <= HopBudget
           /\ attempted = Slice(PlanItems, Len(attempted))
           /\ pc \in {"analyze", "return", "except", "done"}
                  => attempted = Slice(PlanItems, HopBudget)
           /\ Returned
                  => Len(result.hops) = IF AnalyzerRaised THEN 0 ELSE HopBudget

\* C1 witness: a three-step plan cut to two hops by max_hops = 2.
C1_Witness ==
    /\ Returned /\ PlanIsList /\ AllStepObjects
    /\ Len(PlanItems) = 3 /\ max_hops = 2
    /\ Len(attempted) = 2 /\ Len(result.hops) = 2

\* C2: when a hop fails because its query generation or its execution raised,
\* every later hop within the first min(n, max_hops) steps is still attempted
\* and the analyzer is still invoked; the failing hop's outcome carries an
\* error and found zero entities and relationships.
C2_FailedHopDoesNotStopRun ==
    (Returned /\ PlanIsList /\ ErrorHops(hop_results) # {})
        => /\ attempted = Slice(PlanItems, HopBudget)
           /\ Len(analyzer_calls) = 1
           /\ \A k \in ErrorHops(hop_results) :
                  /\ hop_results[k].error # None
                  /\ HopCount(hop_results[k], "nodes_found") = 0
                  /\ HopCount(hop_results[k], "edges_found") = 0

\* C3 (as stated): planner output that is not valid JSON, or is valid JSON but
\* not a list, gives hops == [], final_nodes == [], a non-null error, and no
\* call of the query generator or of the graph execution step.
C3_NonListIsParseFailure ==
    (Returned /\ PlannerReturned
        /\ (~IsJsonText \/ plan_result.body.kind # "list"))
        => /\ result.hops = <<>>
           /\ result.final_nodes = <<>>
           /\ result.error # None
           /\ generator_calls = <<>>
           /\ execute_calls = <<>>

\* C3 (amended): planner output that is not a text or not valid JSON gives
\* hops == [], final_nodes == [], a non-null error, and no call of the query
\* generator, the graph execution step or the analyzer; planner output that is
\* valid JSON but not a list is replaced by an empty plan without an error of
\* its own: no hop runs, the analyzer is called once, and the error is null
\* unless the analyzer raised.
C3_PlanParseFailure ==
    (Returned /\ PlannerReturned)
        => /\ ~IsJsonText
                  => /\ result.hops = <<>>
                     /\ result.final_nodes = <<>>
                     /\ result.error # None
                     /\ generator_calls = <<>>
                     /\ execute_calls = <<>>
                     /\ analyzer_calls = <<>>
           /\ (IsJsonText /\ plan_result.body.kind # "list")
                  => /\ steps = <<>>
                     /\ result.hops = <<>>
                     /\ result.final_nodes = <<>>
                     /\ generator_calls = <<>>
                     /\ execute_calls = <<>>
                     /\ Len(analyzer_calls) = 1
                     /\ (result.error = None) <=> ~AnalyzerRaised

\* C3 witness: the planner answered in prose and the run returned the
\* plan-parse failure.
C3_Witness ==
    /\ Returned
    /\ plan_result.is_str /\ plan_result.plan = <<"prose">>
    /\ result.error = "Plan parsing failed: JSONDecodeError"
    /\ result.hops = <<>>

\* C4: a planner output that is not a list, or is a list of elements that are
\* not step objects, runs zero hops, still calls the analyzer (over an empty
\* result set) and, the analyzer having returned, gives a null error.
C4_NonStepPlanIsEmptyPlan ==
    (Returned /\ PlanParsed /\ (plan_result.body.kind # "list" \/ NoStepObjects))
        => /\ generator_calls = <<>>
           /\ execute_calls = <<>>
           /\ Len(analyzer_calls) = 1
           /\ analyzer_calls[1].all_results = results_json(<<>>, <<>>)
           /\ ~AnalyzerRaised => result.error = None

\* C5: whatever the planner, the generator, the execution step and the
\* analyzer do, no exception leaves the call (it is always at a statement of
\* the method or has returned, and an exception in flight is on its way to
\* one of the two handlers), and what it returns is a MultiHopResult with
\* every field set.
C5_AlwaysReturnsResult ==
    /\ pc \in {"planner", "parse", "for", "generate", "execute", "hop_except",
               "analyze", "return", "except", "done",
               "dedup", "dedup_once", "dedup_twice"}
    /\ (e # NoExc /\ ~Returned) => pc \in {"hop_except", "except"}
    /\ Returned
           => /\ DOMAIN result = ResultFields
              /\ result.query = question
              /\ result.hops \in Seq({ hop_results[k] : k \in 1..Len(hop_results) })
              /\ result.execution_time \in 0..now
              /\ result.error = None
                     \/ result.error = e.msg
                     \/ result.error = "Plan parsing failed: " \o parse_plan(plan_result).exc

\* C5 witness: a run in which a generation, an execution and the analyzer all
\* failed, and which returned.
C5_Witness ==
    /\ Returned /\ AnalyzerRaised
    /\ \E a, b \in ErrorHops(hop_results) :
           /\ hop_results[a].error = "generator failed"
           /\ hop_results[b].error = "object has no attribute 'lower'"
    /\ DOMAIN result = ResultFields

\* The run ended in the outer handler (lines 240-253) after hops were recorded.
FailedAfterHops == Returned /\ e # NoExc /\ Len(hop_results) >= 1

\* C6 (as stated): when an exception reaches the outer handler after k hops
\* were recorded, the result has a non-null error and still holds the k Hop
\* Outcomes and the entities and relationships accumulated so far.
C6_PartialDataReturned ==
    FailedAfterHops
        => /\ result.error # None
           /\ result.hops = hop_results
           /\ result.final_nodes = _deduplicate_nodes(all_nodes)
           /\ result.final_edges = all_edges

\* C6 (amended): when an exception reaches the outer handler after k hops
\* were recorded, the result has a non-null error and none of what was
\* accumulated: hops, final_nodes, final_edges and cypher_queries are empty.
C6_PartialDataDiscarded ==
    FailedAfterHops
        => /\ result.error # None
           /\ result.error = e.msg
           /\ result.hops = <<>>
           /\ result.final_nodes = <<>>
           /\ result.final_edges = <<>>
           /\ result.cypher_queries = <<>>

\* C6 witness: the analyzer raised after two hops had been recorded and had
\* found nodes and edges.
C6_Witness ==
    /\ Returned /\ AnalyzerRaised
    /\ Len(hop_results) = 2
    /\ all_nodes # <<>> /\ all_edges # <<>>
    /\ result.hops = <<>> /\ result.error = "analyzer failed"

\* C7: a run that parsed a plan and entered the hop loop always reaches
\* analysis: when it has returned, the analyzer was invoked, whatever the
\* plan items are and whichever hops failed, and only a failure of the analyzer
\* itself can have taken it to the outer handler.
C7_ExecutingReachesAnalyzing ==
    /\ (Returned /\ PlanParsed) => Len(analyzer_calls) = 1
    /\ (pc = "except" /\ PlanParsed) => AnalyzerRaised

\* The index of the first node of s with the given id.
FirstIndex(s, id) ==
    CHOOSE k \in 1..Len(s) : s[k].id = id /\ \A j \in 1..(k - 1) : s[j].id # id

\* out is s deduplicated by id: no id twice, the ids of s, for each id the
\* node of its first occurrence, in the order of the first occurrences.
IsFirstOccurrenceDedup(s, out) ==
    /\ \A a, b \in 1..Len(out) : a # b => out[a].id # out[b].id
    /\ { out[k].id : k \in 1..Len(out) } = { s[k].id : k \in 1..Len(s) }
    /\ \A k \in 1..Len(out) : out[k] = s[FirstIndex(s, out[k].id)]
    /\ \A a, b \in 1..Len(out) :
           a < b => FirstIndex(s, out[a].id) < FirstIndex(s, out[b].id)

HopsWithoutError(hops) == SelectSeq(hops, LAMBDA h : ~IsErrorHop(h))

\* What the execution step returned for each hop without an error, in hop order.
HopNodes(hops) ==
    LET ok == HopsWithoutError(hops)
    IN [k \in 1..Len(ok) |-> execute_cypher_step(ok[k].cypher_query).nodes]

HopEdges(hops) ==
    LET ok == HopsWithoutError(hops)
    IN [k \in 1..Len(ok) |-> execute_cypher_step(ok[k].cypher_query).edges]

\* C8: _deduplicate_nodes returns no id twice, exactly the ids of its input,
\* for each id the node of its first occurrence, in the order of the first
\* occurrences; final_nodes of a completed run is that for the concatenation
\* of the nodes its hops returned.
C8_DedupFirstOccurrence ==
    /\ pc \in {"dedup_once", "dedup_twice"}
           => IsFirstOccurrenceDedup(nodes, unique_nodes)
    /\ Completed
           => IsFirstOccurrenceDedup(Flatten(HopNodes(result.hops)),
                                     result.final_nodes)

\* C8 witness: three nodes, the first and the third different nodes of one id,
\* deduplicated to two.
C8_Witness ==
    /\ pc = "dedup_once"
    /\ Len(nodes) = 3
    /\ nodes[1].id = nodes[3].id /\ nodes[1] # nodes[3]
    /\ nodes[2].id # nodes[1].id
    /\ unique_nodes = <<nodes[1], nodes[2]>>

\* C9: deduplication is idempotent: _deduplicate_nodes applied to its own
\* output returns that output.
C9_DedupIdempotent ==
    pc = "dedup_twice" => unique_again = unique_nodes

\* C9 witness: a sequence with three nodes of one id went through both calls.
C9_Witness ==
    /\ pc = "dedup_twice"
    /\ Len(nodes) = 3
    /\ nodes[1].id = nodes[2].id /\ nodes[2].id = nodes[3].id
    /\ Len(unique_nodes) = 1
    /\ unique_again = unique_nodes

\* C10: relationships are never deduplicated: final_edges of a completed run is
\* the concatenation, in hop order, of the edge lists the hops without an
\* error returned, so an edge two hops returned is there twice.
C10_EdgesNeverDeduplicated ==
    Completed => result.final_edges = Flatten(HopEdges(result.hops))

\* C10 witness: two hops returned the same EMPLOYED_BY edge and the completed
\* run has it twice.
C10_Witness ==
    /\ Completed
    /\ Len(HopsWithoutError(result.hops)) = 2
    /\ result.final_edges = <<Emp1, Emp1>>

\* The hops recorded without an error for the steps before step number h.
SuccessfulHopsBefore(h) ==
    SelectSeq(hop_results, LAMBDA r : ~IsErrorHop(r) /\ r.step_number < h)

\* C11: the previous_results given to the query generator for step i is the
\* serialization of exactly the entities and relationships the successful
\* hops among steps 1..i-1 returned, in hop order (empty lists for the first
\* step); nothing of step i or of a later step is in it.
C11_PreviousResultsAreEarlierHops ==
    \A k \in 1..Len(generator_calls) :
        LET call == generator_calls[k]
            before == SuccessfulHopsBefore(call.hop)
        IN /\ call.inputs.previous_results =
                  results_json(Flatten(HopNodes(before)), Flatten(HopEdges(before)))
           /\ call.hop = 1 =>
                  call.inputs.previous_results = results_json(<<>>, <<>>)

\* C11 witness: step 1 found the company, step 2 failed, step 3 found the
\* person and the edge; the generator was called for step 3 with the company
\* alone.
C11_Witness ==
    /\ Len(generator_calls) = 3
    /\ Len(hop_results) = 3
    /\ ~IsErrorHop(hop_results[1]) /\ IsErrorHop(hop_results[2])
    /\ ~IsErrorHop(hop_results[3]) /\ hop_results[3].edges_found = 1
    /\ generator_calls[3].hop = 3
    /\ generator_calls[3].inputs.previous_results =
           results_json(<<Company1>>, <<>>)

\* C12: steps execute in ascending step_number order: for every plan of step
\* objects, also one listed in another order than its step_number fields, no
\* step is executed before a step with a smaller step_number, and each Hop
\* Outcome carries the step_number of the plan item it executed.
C12_AscendingStepNumberOrder ==
    (PlanIsList /\ AllStepObjects)
        => /\ \A j, k \in 1..Len(attempted) :
                  j < k => attempted[j].step_number <= attempted[k].step_number
           /\ \A k \in 1..Len(hop_results) :
                  hop_results[k].step_number = attempted[k].step_number

\* What the k-th call of _execute_cypher_step of the run returned.
Executed(k) == execute_cypher_step(execute_calls[k].cypher_query)

\* The scenario of C13: a plan of two step objects, max_hops at least 2, the
\* execution of step 1 returned one Company and no edge, the execution of
\* step 2 returned one Person and one EMPLOYED_BY edge from that person to
\* that company, and the analyzer returned.
TwoStepScenario ==
    /\ Completed /\ PlanIsList /\ AllStepObjects
    /\ Len(PlanItems) = 2 /\ max_hops >= 2
    /\ Len(execute_calls) = 2
    /\ execute_calls[1].hop = 1 /\ execute_calls[2].hop = 2
    /\ execute_calls[1].cypher_query.is_str /\ execute_calls[2].cypher_query.is_str
    /\ Len(Executed(1).nodes) = 1 /\ Executed(1).nodes[1].label = "Company"
    /\ Executed(1).edges = <<>>
    /\ Len(Executed(2).nodes) = 1 /\ Executed(2).nodes[1].label = "Person"
    /\ Len(Executed(2).edges) = 1
    /\ Executed(2).edges[1].label = "EMPLOYED_BY"
    /\ Executed(2).edges[1].from_id = Executed(2).nodes[1].id
    /\ Executed(2).edges[1].to_id = Executed(1).nodes[1].id

\* C13: in the two-step scenario the result has the company and the person in
\* final_nodes, the one edge in final_edges, two hops neither carrying an
\* error, and error None.
C13_TwoStepEndToEnd ==
    TwoStepScenario
        => /\ Len(result.final_nodes) = 2
           /\ result.final_nodes = Executed(1).nodes \o Executed(2).nodes
           /\ Len(result.final_edges) = 1
           /\ result.final_edges = Executed(2).edges
           /\ Len(result.hops) = 2
           /\ ErrorHops(result.hops) = {}
           /\ result.error = None

\* C13 witness: the scenario happened and the run returned Goldman Sachs, its
\* CEO and the edge between them.
C13_Witness ==
    /\ TwoStepScenario
    /\ result.final_nodes = <<Company1, Person1>>
    /\ result.final_edges = <<Emp1>>
    /\ Len(result.hops) = 2

\* The run returned after a loop in which every hop succeeded.
ReturnedAllHopsSucceeded ==
    /\ Returned /\ PlanIsList /\ AllStepObjects
    /\ Len(hop_results) = HopBudget
    /\ ErrorHops(hop_results) = {}

\* The queries given to _execute_cypher_step, in call order.
QueriesIssued == [k \in 1..Len(execute_calls) |-> execute_calls[k].cypher_query]

\* C14 (as stated): when every hop succeeded, cypher_queries of the result
\* has min(n, max_hops) elements and the i-th is the query recorded in the
\* i-th Hop Outcome.
C14_QueriesWhenEveryHopSucceeds ==
    ReturnedAllHopsSucceeded
        => /\ Len(result.cypher_queries) = HopBudget
           /\ \A k \in 1..HopBudget :
                  result.cypher_queries[k] = hop_results[k].cypher_query

\* C14 (amended): when every hop succeeded and the analyzer returned,
\* cypher_queries of the result is the list of the queries issued, in order:
\* it has min(n, max_hops) elements and the i-th is the query recorded in the
\* i-th Hop Outcome of the result; when the analyzer raised, cypher_queries of
\* the result is empty.
C14_QueriesOfCompletedRun ==
    ReturnedAllHopsSucceeded
        => IF AnalyzerRaised
           THEN result.cypher_queries = <<>>
           ELSE /\ Len(result.cypher_queries) = HopBudget
                /\ result.cypher_queries = QueriesIssued
                /\ Len(result.hops) = HopBudget
                /\ \A k \in 1..HopBudget :
                       result.cypher_queries[k] = result.hops[k].cypher_query

\* C14 witness: max_hops = 1 and a plan of three steps: only step 1 was
\* executed and the completed run lists one query.
C14_Witness ==
    /\ ReturnedAllHopsSucceeded /\ Completed
    /\ max_hops = 1 /\ Len(PlanItems) = 3
    /\ Len(attempted) = 1 /\ Len(execute_calls) = 1
    /\ Len(result.cypher_queries) = 1

\* The analyzer was called with nothing accumulated: no hop ran or no hop
\* returned anything.
AnalyzedEmptyEvidence ==
    /\ analyzer_calls # <<>>
    /\ analyzer_calls[1].all_results = results_json(<<>>, <<>>)

Verdicts == {"complete", "partial", "incomplete"}

\* C15: when the accumulated result set is empty the analysis does not fail
\* the run and gives completeness incomplete with a missing_info that is not
\* empty; in every run the completeness verdict of an analysis is one of
\* complete, partial, incomplete.
C15_EmptyEvidenceIsIncomplete ==
    /\ (Returned /\ AnalyzedEmptyEvidence)
           => /\ result.error = None
              /\ analysis.completeness = "incomplete"
              /\ analysis.missing_info \notin {"", None}
    /\ analysis # NoAnalysis => analysis.completeness \in Verdicts

\* The calls of a log made for step number h.
CallsForHop(log, h) == SelectSeq(log, LAMBDA c : c.hop = h)

\* C16: nothing is retried: within one call of process_complex_query the
\* planner is invoked at most once, the analyzer at most once, and for each
\* plan step the query generator and the execution step are invoked at most
\* once each, also after that step or an earlier one failed.
C16_NothingRetried ==
    /\ planner_calls <= 1
    /\ Len(analyzer_calls) <= 1
    /\ \A h \in 1..MaxHops + 1 :
           /\ Len(CallsForHop(generator_calls, h)) <= 1
           /\ Len(CallsForHop(execute_calls, h)) <= 1
    /\ Len(generator_calls) <= Len(attempted)
    /\ Len(execute_calls) <= Len(generator_calls)

\* C16 witness: step 1 failed in execution, step 2 failed in generation,
\* step 3 succeeded, the run returned: one planner call, one analyzer call,
\* three generator calls and two executions.
C16_Witness ==
    /\ Returned
    /\ Len(hop_results) = 3
    /\ IsErrorHop(hop_results[1]) /\ IsErrorHop(hop_results[2])
    /\ ~IsErrorHop(hop_results[3])
    /\ planner_calls = 1 /\ Len(analyzer_calls) = 1
    /\ Len(generator_calls) = 3
    /\ Len(execute_calls) = 2
    /\ execute_calls[1].hop = 1 /\ execute_calls[2].hop = 3

\* The number of port invocations made so far: planner, query generator,
\* graph execution, analyzer.
PortCallsMade ==
    planner_calls + Len(generator_calls) + Len(execute_calls) + Len(analyzer_calls)

\* The step number of the last call of a log.
LastHop(log) == log[Len(log)].hop

\* C17: the run is sequential: a statement makes at most one port invocation,
\* which returns or raises before the next statement; the query generation
\* of a step starts only when every earlier step has its Hop Outcome (its
\* execution completed or the step failed), and the execution of a step
\* starts only after the generation of that step and of no later step.
C17_StrictlySequential ==
    [][ /\ PortCallsMade' <= PortCallsMade + 1
        /\ generator_calls' # generator_calls
               => /\ Len(hop_results) = LastHop(generator_calls') - 1
                  /\ \A k \in 1..Len(execute_calls) :
                         execute_calls[k].hop < LastHop(generator_calls')
        /\ execute_calls' # execute_calls
               => /\ generator_calls # <<>>
                  /\ LastHop(generator_calls) = LastHop(execute_calls')
                  /\ Len(hop_results) = LastHop(execute_calls') - 1
        /\ analyzer_calls' # analyzer_calls
               => pc \notin {"generate", "execute", "hop_except"}
      ]_vars

\* C17 witness: step 1 failed, step 2 was executed, and only then was the
\* query of step 3 generated; its execution has not started.
C17_Witness ==
    /\ pc = "execute"
    /\ Len(hop_results) = 2
    /\ IsErrorHop(hop_results[1]) /\ ~IsErrorHop(hop_results[2])
    /\ Len(generator_calls) = 3 /\ LastHop(generator_calls) = 3
    /\ Len(execute_calls) >= 1 /\ LastHop(execute_calls) = 2

PlannerRaised == e.msg = "planner failed"

GeneratorRaised == pc = "hop_except" /\ e.msg = "generator failed"

\* The fields a result shares with the result of a plan-parse failure.
LikePlanParseFailure(r) ==
    LET f == plan_parse_failure("JSONDecodeError")
    IN /\ r.hops = f.hops /\ r.final_nodes = f.final_nodes
       /\ r.final_edges = f.final_edges /\ r.cypher_queries = f.cypher_queries
       /\ r.error # None

\* C19: a failure of the inference port is handled like malformed output:
\* when the planner call raises, the run returns next, like a plan-parse
\* failure, with no hop executed, hops and final_nodes empty and an error;
\* when the query generation of a step raises, the next statement records
\* that hop with the error, and the loop then goes on to the next step or to
\* the analysis.
C19_InferenceFailureLikeMalformedOutput ==
    [][ /\ (pc = "except" /\ PlannerRaised)
               => /\ pc' = "done"
                  /\ LikePlanParseFailure(result')
                  /\ result'.hops = <<>> /\ result'.final_nodes = <<>>
                  /\ attempted = <<>> /\ generator_calls = <<>>
                  /\ execute_calls = <<>>
        /\ GeneratorRaised
               => /\ pc' = "for"
                  /\ hop_results' =
                         Append(hop_results,
                                [step_number |-> i + 1,
                                 description |-> Get(step.description, ""),
                                 error |-> "generator failed"])
                  /\ result' = NoResult
        /\ (pc = "for" /\ hop_results # <<>>
                /\ IsErrorHop(hop_results[Len(hop_results)]))
               => /\ pc' \in {"generate", "analyze"}
                  /\ pc' = "generate" <=> Len(attempted) < Len(hop_steps)
      ]_vars

\* C19 witness: the query generation of step 1 raised, step 2 was executed
\* all the same and the run completed with both hops in the result.
C19_Witness ==
    /\ Completed
    /\ Len(result.hops) = 2
    /\ IsErrorHop(result.hops[1]) /\ result.hops[1].error = "generator failed"
    /\ ~IsErrorHop(result.hops[2])
    /\ Len(generator_calls) = 2 /\ Len(execute_calls) = 1

\* C20: on every return path (normal completion, plan-parse failure, outer
\* handler) the result's execution_time is the number of ticks from the start
\* of the call to the creation of the result.
C20_ExecutionTimeIsElapsed ==
    Returned => result.execution_time = now - start_time

\* What the executions of a call returned, from the call's own log: the
\* nodes and the edges of every execution that did not raise, in call order.
OwnNodes(f) ==
    Flatten([k \in 1..Len(f.execute_calls) |->
                 IF f.execute_calls[k].cypher_query.is_str
                 THEN execute_cypher_step(f.execute_calls[k].cypher_query).nodes
                 ELSE <<>>])

OwnEdges(f) ==
    Flatten([k \in 1..Len(f.execute_calls) |->
                 IF f.execute_calls[k].cypher_query.is_str
                 THEN execute_cypher_step(f.execute_calls[k].cypher_query).edges
                 ELSE <<>>])

\* The Hop Outcome a call run alone records for its k-th step, from the
\* call's own plan and the responses its own ports gave for that step.
OwnHop(f, k) ==
    LET item == f.plan_result.body.items[k]
        gen == SelectSeq(f.generator_calls, LAMBDA c : c.hop = k)
        exe == SelectSeq(f.execute_calls, LAMBDA c : c.hop = k)
    IN IF exe = <<>>
       THEN [step_number |-> k, description |-> Get(item.description, ""),
             error |-> "generator failed"]
       ELSE IF ~exe[1].cypher_query.is_str
            THEN [step_number |-> k, description |-> Get(item.description, ""),
                  error |-> "object has no attribute 'lower'"]
            ELSE [step_number |-> k, description |-> Get(item.description, ""),
                  cypher_query |-> exe[1].cypher_query, reasoning |-> "because",
                  nodes_found |-> Len(execute_cypher_step(exe[1].cypher_query).nodes),
                  edges_found |-> Len(execute_cypher_step(exe[1].cypher_query).edges)]

\* The result of frame f is the one the call produces when it runs alone
\* with the port responses it got: built from its own plan, its own max_hops
\* and its own executions only.
ResultOfOwnRun(f) ==
    LET n == Min(Len(f.plan_result.body.items), f.max_hops)
    IN IF f.result.error = None
       THEN /\ f.result.hops = [k \in 1..n |-> OwnHop(f, k)]
            /\ f.result.final_nodes = _deduplicate_nodes(OwnNodes(f))
            /\ f.result.final_edges = OwnEdges(f)
            /\ f.result.cypher_queries =
                   [k \in 1..Len(f.execute_calls) |-> f.execute_calls[k].cypher_query]
            /\ Len(f.generator_calls) = n
       ELSE /\ f.result.hops = <<>>
            /\ f.result.final_nodes = <<>>
            /\ f.result.final_edges = <<>>
            /\ f.result.cypher_queries = <<>>

\* C18: two calls of process_complex_query on one agent, interleaved in any
\* order, share no plan, hop, entity, relationship or query state: the
\* result of each call is the result of its own run, and nothing another
\* call accumulated is in it.
C18_InterleavedCallsShareNothing ==
    /\ Returned => ResultOfOwnRun(ActiveFrame)
    /\ suspended.pc = "done" => ResultOfOwnRun(suspended)

\* C18 witness: both calls returned after being interleaved in their loops;
\* one found the company alone, the other the person and the edge alone.
C18_Witness ==
    /\ Returned /\ suspended.pc = "done"
    /\ result.error = None /\ suspended.result.error = None
    /\ result.final_nodes = <<Company1>> /\ result.final_edges = <<>>
    /\ suspended.result.final_nodes = <<Person1>>
    /\ suspended.result.final_edges = <<Emp1>>
    /\ result.execution_time = now
    /\ suspended.result.execution_time < now
    /\ suspended.result.execution_time > 2

\* The statements of the loop body: an attempt of a step is under way.
InLoopBody == pc \in {"generate", "execute", "hop_except"}

\* s is t or t with elements appended.
IsPrefix(t, s) == Len(t) <= Len(s) /\ SubSeq(s, 1, Len(t)) = t

\* A Hop Outcome is a success or an error, not both.
WellFormedHop(h) == IsErrorHop(h) <=> "cypher_query" \notin DOMAIN h

\* C21: during the execution loop the list of Hop Outcomes is append-only:
\* a statement never changes or removes a recorded outcome and appends at
\* most one; each attempted step appends exactly one outcome, a success or
\* an error, so that when the attempt of the i-th step is over the list has
\* exactly i entries, numbered in execution order.
C21_HopOutcomesAppendOnly ==
    [][ /\ IsPrefix(hop_results, hop_results')
        /\ Len(hop_results') <= Len(hop_results) + 1
        /\ \A k \in 1..Len(hop_results') :
               /\ WellFormedHop(hop_results'[k])
               /\ hop_results'[k].step_number = k
        /\ (InLoopBody /\ ~InLoopBody')
               => Len(hop_results') = Len(attempted')
      ]_vars

\* The last element of a sequence that is not empty.
Last(s) == s[Len(s)]

\* C22: a failed hop leaves the accumulated entity and relationship
\* sequences unchanged: neither the statement that raises nor the handler
\* that records the error changes all_nodes or all_edges, and the query
\* generator is called for the step after a failed one with the context it
\* was given for the failed step, which is what is accumulated.
C22_FailedHopKeepsAccumulators ==
    [][ /\ (pc' = "hop_except" \/ pc = "hop_except")
               => /\ all_nodes' = all_nodes
                  /\ all_edges' = all_edges
        /\ (generator_calls' # generator_calls /\ hop_results # <<>>
                /\ IsErrorHop(Last(hop_results)))
               => /\ Last(generator_calls').inputs.previous_results =
                         Last(generator_calls).inputs.previous_results
                  /\ Last(generator_calls').inputs.previous_results =
                         results_json(all_nodes, all_edges)
      ]_vars

\* C22 witness: step 1 found the company, the execution of step 2 raised and
\* its error is recorded; the accumulators hold the company alone.
C22_Witness ==
    /\ pc = "for"
    /\ Len(hop_results) = 2
    /\ ~IsErrorHop(hop_results[1]) /\ IsErrorHop(hop_results[2])
    /\ Len(execute_calls) = 2 /\ ~execute_calls[2].cypher_query.is_str
    /\ all_nodes = <<Company1>> /\ all_edges = <<>>

\* The texts of one JSON value P: bare, in a json fence, in a plain fence,
\* each with and without whitespace around the fences and around P.
FencedForms ==
    { <<"JSON">>,
      <<"ws", "JSON", "ws">>,
      <<Fence, "json", "JSON", Fence>>,
      <<Fence, "json", "ws", "JSON", "ws", Fence>>,
      <<"ws", Fence, "json", "ws", "JSON", "ws", Fence, "ws">>,
      <<Fence, "JSON", Fence>>,
      <<Fence, "ws", "JSON", "ws", Fence>>,
      <<"ws", Fence, "ws", "JSON", "ws", Fence, "ws">> }

\* The planner output with its text replaced by the form w of the same value.
Rewrapped(w) == [plan_result EXCEPT !.plan = w]

\* The planner returned a JSON list, bare or fenced.
ReturnedJsonList ==
    /\ PlannerReturned /\ plan_result.is_str
    /\ plan_result.plan \in Wrappings
    /\ plan_result.body.kind = "list"

\* C23: formatting markers around the planner output are stripped before
\* parsing: a JSON list of steps parses to the same step list, the list
\* itself, whether it comes bare, in a json fence or in a plain fence, with
\* or without whitespace around; the run that follows has that list as its
\* steps and is never a plan-parse failure.
C23_FencesStripped ==
    ReturnedJsonList
        => /\ \A w \in FencedForms :
                  /\ parse_plan(Rewrapped(w)) = parse_plan(Rewrapped(<<"JSON">>))
                  /\ parse_plan(Rewrapped(w)).exc = None
                  /\ parse_plan(Rewrapped(w)).steps = plan_result.body.items
           /\ pc \notin {"planner", "parse"}
                  => /\ steps = plan_result.body.items
                     /\ Returned => result.reasoning # "Failed to parse multi-hop plan"

\* C23 witness: a plan of two steps came in a plain fence with whitespace
\* around and the loop runs over the two steps.
C23_Witness ==
    /\ ReturnedJsonList
    /\ plan_result.plan = <<"ws", Fence, "ws", "JSON", "ws", Fence, "ws">>
    /\ pc = "generate" /\ i = 1
    /\ Len(steps) = 2 /\ steps = plan_result.body.items

\* C24: the analysis step does not change the accumulated data: the
\* statement that invokes the analyzer leaves all_nodes, all_edges, the Hop
\* Outcomes and the query list as they were and passes the analyzer their
\* serialization; the result of the return that follows has those Hop
\* Outcomes and queries, final_edges equal to all_edges and final_nodes the
\* deduplicated all_nodes, which are still what the analyzer was given.
C24_AnalysisKeepsAccumulatedData ==
    [][ /\ analyzer_calls' # analyzer_calls
               => /\ all_nodes' = all_nodes /\ all_edges' = all_edges
                  /\ hop_results' = hop_results
                  /\ cypher_queries' = cypher_queries
                  /\ Last(analyzer_calls').all_results =
                         results_json(all_nodes, all_edges)
        /\ (pc = "return" /\ pc' = "done")
               => /\ results_json(all_nodes, all_edges) =
                         Last(analyzer_calls).all_results
                  /\ result'.final_edges = all_edges
                  /\ result'.final_nodes = _deduplicate_nodes(all_nodes)
                  /\ result'.hops = hop_results
                  /\ result'.cypher_queries = cypher_queries
      ]_vars

\* C24 witness: two hops found the same company; the analyzer was given both
\* copies, the accumulators still hold both after the return and final_nodes
\* holds one.
C24_Witness ==
    /\ Completed
    /\ all_nodes = <<Company1, Company1>>
    /\ analyzer_calls = << [original_question |-> question,
                            all_results |-> results_json(all_nodes, all_edges)] >>
    /\ result.final_nodes = <<Company1>>

\* The run is in the execution loop or at the analysis after it.
InExecutionLoop == pc \in {"for", "generate", "execute", "hop_except", "analyze", "return"}

\* Between two attempts: no step is being attempted.
AtIterationBoundary == pc \in {"for", "analyze", "return"}

\* The number of queries is between the number of Hop Outcomes without an
\* error and the number of Hop Outcomes.
QueriesWithinHops(queries, hops) ==
    /\ Len(queries) <= Len(hops)
    /\ Len(queries) >= Len(HopsWithoutError(hops))

\* Every execution that raised left its query in the query list, and its
\* Hop Outcome, once recorded, carries an error and no query.
FailedExecutionsKeepQuery ==
    \A k \in 1..Len(execute_calls) :
        ~execute_calls[k].cypher_query.is_str
            => /\ k <= Len(cypher_queries)
               /\ cypher_queries[k] = execute_calls[k].cypher_query
               /\ execute_calls[k].hop <= Len(hop_results)
                      => /\ IsErrorHop(hop_results[execute_calls[k].hop])
                         /\ "cypher_query" \notin
                                DOMAIN hop_results[execute_calls[k].hop]

\* C25 (as stated): in every state of the execution loop and in every
\* returned result the number of queries in cypher_queries is at most the
\* number of Hop Outcomes and at least the number of Hop Outcomes without an
\* error; a hop whose execution failed leaves its query in cypher_queries
\* although its outcome carries an error and no query.
C25_QueriesWithinHopsInEveryState ==
    /\ InExecutionLoop
           => /\ QueriesWithinHops(cypher_queries, hop_results)
              /\ FailedExecutionsKeepQuery
    /\ Returned => QueriesWithinHops(result.cypher_queries, result.hops)

\* C25 (amended): between two attempts of the execution loop and in every
\* returned result the number of queries is at most the number of Hop
\* Outcomes and at least the number of those without an error; while a step
\* is being attempted the query list can be one ahead of the outcomes; a hop
\* whose execution failed leaves its query in cypher_queries although its
\* outcome carries an error and no query.
C25_QueriesWithinHopsBetweenAttempts ==
    /\ AtIterationBoundary => QueriesWithinHops(cypher_queries, hop_results)
    /\ InExecutionLoop
           => /\ Len(cypher_queries) <= Len(hop_results) + 1
              /\ Len(cypher_queries) >= Len(HopsWithoutError(hop_results))
              /\ FailedExecutionsKeepQuery
    /\ Returned => QueriesWithinHops(result.cypher_queries, result.hops)

\* C25 witness: the execution of step 1 raised, step 2 succeeded and the run
\* completed: two queries, two Hop Outcomes, one of them without an error.
C25_Witness ==
    /\ Completed
    /\ Len(result.cypher_queries) = 2 /\ Len(result.hops) = 2
    /\ IsErrorHop(result.hops[1]) /\ ~IsErrorHop(result.hops[2])
    /\ ~execute_calls[1].cypher_query.is_str
    /\ result.cypher_queries[1] = execute_calls[1].cypher_query

RECURSIVE SumFound(_, _)
\* The sum of a count over the Hop Outcomes without an error.
SumFound(hops, key) ==
    IF hops = <<>> THEN 0
    ELSE (IF IsErrorHop(Head(hops)) THEN 0 ELSE Head(hops)[key])
             + SumFound(Tail(hops), key)

\* C26: on every run that completes through analysis the counts agree: the
\* length of final_edges is the sum of edges_found over the Hop Outcomes
\* without an error, the length of final_nodes is at most the sum of
\* nodes_found over them, and final_nodes is empty exactly when that sum is
\* zero.
C26_CountsConsistent ==
    Completed
        => /\ Len(result.final_edges) = SumFound(result.hops, "edges_found")
           /\ Len(result.final_nodes) <= SumFound(result.hops, "nodes_found")
           /\ result.final_nodes = <<>>
                  <=> SumFound(result.hops, "nodes_found") = 0

\* C26 witness: three hops, one failed, two found the same person and edge:
\* two edges for edges_found 1 + 1, one node for nodes_found 1 + 1.
C26_Witness ==
    /\ Completed
    /\ Len(result.hops) = 3 /\ Cardinality(ErrorHops(result.hops)) = 1
    /\ SumFound(result.hops, "nodes_found") = 2
    /\ SumFound(result.hops, "edges_found") = 2
    /\ result.final_nodes = <<Person1>>
    /\ result.final_edges = <<Emp1, Emp1>>

\* The run reached the analysis step and the analyzer call returned.
AnalyzerReturned == analyzer_calls # <<>> /\ analysis # NoAnalysis

\* Every step the loop attempted failed.
EveryHopFailed ==
    /\ attempted # <<>>
    /\ \A k \in 1..Len(hop_results) : IsErrorHop(hop_results[k])

\* C27: the top-level error of the returned result is None exactly when the
\* run reached the analysis and the analyzer returned; the error of a hop
\* never becomes the top-level error: a top-level error comes from before
\* the loop or from the analyzer, and a run in which every hop failed
\* reaches the analysis; when the top-level error is not None, hops,
\* final_nodes, final_edges and cypher_queries are empty.
C27_TopLevelErrorOnlyOutsideHops ==
    Returned
        => /\ result.error = None <=> AnalyzerReturned
           /\ result.error # None
                  => /\ result.hops = <<>> /\ result.final_nodes = <<>>
                     /\ result.final_edges = <<>> /\ result.cypher_queries = <<>>
                     /\ attempted = <<>> \/ AnalyzerRaised
           /\ EveryHopFailed => analyzer_calls # <<>>
           /\ (EveryHopFailed /\ ~AnalyzerRaised) => result.error = None

\* The phases of a run in the order they are gone through: planning,
\* executing, analyzing, the outer handler, returned.
PhaseRank ==
    CASE pc \in {"planner", "parse"} -> 1
      [] pc \in {"for", "generate", "execute", "hop_except"} -> 2
      [] pc \in {"analyze", "return"} -> 3
      [] pc = "except" -> 4
      [] OTHER -> 5

\* The port invocations a run of n parsed steps may make.
WithinCallBudget ==
    /\ planner_calls <= 1
    /\ Len(generator_calls) <= Min(Len(steps), max_hops)
    /\ Len(execute_calls) <= Min(Len(steps), max_hops)
    /\ Len(analyzer_calls) <= 1

\* C28: every call of process_complex_query terminates when each port
\* invocation returns or raises: the run returns a result, after at most
\* one planner call, at most min(n, max_hops) query generations, at most
\* min(n, max_hops) executions and at most one analyzer call, and it never
\* goes back to a phase it has left.
C28_Terminates ==
    /\ <>Returned
    /\ [][PhaseRank' >= PhaseRank]_vars
    /\ []WithinCallBudget
    /\ [](Returned => result # NoResult)

\* C28 witness: a run of three steps with max_hops = 3 returned after one
\* planner call, three generations, three executions and one analyzer call.
C28_Witness ==
    /\ Returned /\ result # NoResult
    /\ max_hops = 3 /\ Len(steps) = 3
    /\ planner_calls = 1 /\ Len(generator_calls) = 3
    /\ Len(execute_calls) = 3 /\ Len(analyzer_calls) = 1

====
